---- MODULE Spec2Model ----
(***************************************************************************)
(* Model of the compiler-tester webhook service: the tag admission         *)
(* controller (webhook_handler.process_tag_event), the relational Store    *)
(* (db/database.py, db/db_create.py), the build dispatcher (docker_ops.py) *)
(* and the result callback (main.save_test_result).                        *)
(*                                                                         *)
(* Strings that the code parses or formats (tags, version names) are       *)
(* sequences of one-character strings, so that the regular expression,     *)
(* int() and the f-string formatting are computed and not assumed.         *)
(***************************************************************************)
EXTENDS Integers, Sequences, FiniteSets, Bags, TLC

VARIABLES Repository, Semester, Version, TestResult, User,
          running, admitted, last

vars == <<Repository, Semester, Version, TestResult, User, running, admitted, last>>

Store == <<Repository, Semester, Version, TestResult, User>>

\* Python None where a tag string is expected (payload.get("ref") of a
\* payload without "ref"); no character sequence equals it
NoneTag == <<"None">>
\* Python None returned by _parse_semver
NoParse == <<>>
\* SQL NULL in the integer column Repository.installation_id (falsy in Python)
NullId == 0
\* Python None as issue_text (SQL NULL in TestResult.issue_text)
NoneText == "None"

----------------------------------------------------------------------------
(* Bounds of the model *)

\* most rows the TestResult table holds
MaxResults == 2
\* most build containers in flight at once
MaxRunning == 1
\* most TestResult rows in an initial Store of SpecDecide
MaxLedger == 3
\* most build containers in flight at once when deliveries race
MaxInFlight == 2

----------------------------------------------------------------------------
(* The finite universe of inputs *)

\* well-formed tags
T_1_0_0  == <<"v","1",".","0",".","0">>
T_1_0_1  == <<"v","1",".","0",".","1">>
T_1_1_0  == <<"v","1",".","1",".","0">>
T_9_9_9  == <<"v","9",".","9",".","9">>
T_10_2_3 == <<"v","1","0",".","2",".","3">>
\* well-formed, leading zero: parses to (1, 0, 1) like T_1_0_1
T_01_0_1 == <<"v","0","1",".","0",".","1">>

\* malformed tags
M_NoV      == <<"1",".","0",".","0">>
M_TwoParts == <<"v","1",".","0">>
M_Release  == <<"r","e","l","e","a","s","e","-","1">>
M_Empty    == <<>>
M_Prefix   == <<"x","v","1",".","0",".","0">>
M_Suffix   == <<"v","1",".","0",".","0","x">>

WellFormedTags == {T_1_0_0, T_1_0_1, T_1_1_0, T_9_9_9, T_10_2_3, T_01_0_1}
MalformedTags  == {M_NoV, M_TwoParts, M_Release, M_Empty, M_Prefix, M_Suffix, NoneTag}
Tags == WellFormedTags \cup MalformedTags

\* version names
V_1_0  == <<"v","1",".","0">>
V_1_1  == <<"v","1",".","1">>
V_10_2 == <<"v","1","0",".","2">>

\* repositories, keyed (git_username, repository_name); GitHub gives every
\* installation exactly one repository (main.setup_callback refuses others)
RepoKeys == {<<"alice", "proj">>, <<"bob", "comp">>}
InstallationOf(u, r) == IF u = "alice" THEN 1 ELSE 2

SemesterNames == {"BCC", "ENG"}
Statuses == {"PASS", "FAILED"}
\* issue texts a build reports
IssueTexts == {NoneText, "crash"}
\* what a build reports: the status and the issue text
Reports == {<<"PASS", NoneText>>, <<"FAILED", "crash">>}
\* X-API-Secret headers of the requests, NoHeader for none
Secrets == {"your-default-secret-change-me", "wrong", "(no header)"}

----------------------------------------------------------------------------
(* webhook_handler._parse_semver and the string conversions it relies on *)

Digits == {"0","1","2","3","4","5","6","7","8","9"}

DigitVal(c) ==
    CASE c = "0" -> 0 [] c = "1" -> 1 [] c = "2" -> 2 [] c = "3" -> 3
      [] c = "4" -> 4 [] c = "5" -> 5 [] c = "6" -> 6 [] c = "7" -> 7
      [] c = "8" -> 8 [] c = "9" -> 9

DigitChar(d) ==
    CASE d = 0 -> "0" [] d = 1 -> "1" [] d = 2 -> "2" [] d = 3 -> "3"
      [] d = 4 -> "4" [] d = 5 -> "5" [] d = 6 -> "6" [] d = 7 -> "7"
      [] d = 8 -> "8" [] d = 9 -> "9"

\* \d+ : a non-empty run of decimal digits
IsDigits(s) == Len(s) > 0 /\ \A i \in 1..Len(s) : s[i] \in Digits

\* int(part)
RECURSIVE ToInt(_)
ToInt(s) == IF Len(s) = 0 THEN 0
            ELSE 10 * ToInt(SubSeq(s, 1, Len(s) - 1)) + DigitVal(s[Len(s)])

\* str(n) as the f-string formats an int
RECURSIVE IntToStr(_)
IntToStr(n) == IF n < 10 THEN <<DigitChar(n)>>
               ELSE IntToStr(n \div 10) \o <<DigitChar(n % 10)>>

\* positions of the "." characters of s
DotPositions(s) == {i \in 1..Len(s) : s[i] = "."}

\* mutant: re.match in place of re.fullmatch, so that text after the third
\* group is accepted
_parse_semver_Match(tag) ==
    IF tag = NoneTag THEN NoParse
    ELSE IF Len(tag) = 0 \/ tag[1] # "v" THEN NoParse
    ELSE LET dots == DotPositions(tag) IN
         IF Cardinality(dots) < 2 THEN NoParse
         ELSE LET d1 == CHOOSE i \in dots : \A j \in dots : i <= j
                  d2 == CHOOSE i \in dots \ {d1} : \A j \in dots \ {d1} : i <= j
                  g1 == SubSeq(tag, 2, d1 - 1)
                  g2 == SubSeq(tag, d1 + 1, d2 - 1)
                  e3 == CHOOSE e \in d2..Len(tag) :
                          /\ \A i \in (d2 + 1)..e : tag[i] \in Digits
                          /\ e = Len(tag) \/ tag[e + 1] \notin Digits
                  g3 == SubSeq(tag, d2 + 1, e3)
              IN IF IsDigits(g1) /\ IsDigits(g2) /\ IsDigits(g3)
                 THEN <<ToInt(g1), ToInt(g2), ToInt(g3)>>
                 ELSE NoParse

\* re.fullmatch(r"v(\d+)\.(\d+)\.(\d+)", tag): the three groups, or None
_parse_semver(tag) ==
    IF tag = NoneTag THEN NoParse
    ELSE IF Len(tag) = 0 \/ tag[1] # "v" THEN NoParse
    ELSE LET dots == DotPositions(tag) IN
         IF Cardinality(dots) # 2 THEN NoParse
         ELSE LET d1 == CHOOSE i \in dots : \A j \in dots : i <= j
                  d2 == CHOOSE i \in dots : \A j \in dots : j <= i
                  g1 == SubSeq(tag, 2, d1 - 1)
                  g2 == SubSeq(tag, d1 + 1, d2 - 1)
                  g3 == SubSeq(tag, d2 + 1, Len(tag))
              IN IF IsDigits(g1) /\ IsDigits(g2) /\ IsDigits(g3)
                 THEN <<ToInt(g1), ToInt(g2), ToInt(g3)>>
                 ELSE NoParse

\* mutant: an equal PATCH counts as greater
_is_greater_semver_Ge(a, b) ==
    LET va == _parse_semver(a)
        vb == _parse_semver(b)
    IN IF va = NoParse \/ vb = NoParse THEN FALSE
       ELSE IF va[1] = vb[1] /\ va[2] = vb[2] THEN va[3] >= vb[3]
       ELSE TRUE

\* webhook_handler._is_greater_semver
_is_greater_semver(a, b) ==
    LET va == _parse_semver(a)
        vb == _parse_semver(b)
    IN IF va = NoParse \/ vb = NoParse THEN FALSE
       ELSE IF va[1] = vb[1] /\ va[2] = vb[2] THEN va[3] > vb[3]
       ELSE TRUE

\* f"v{parsed[0]}.{parsed[1]}"
MajorMinor(parsed) == <<"v">> \o IntToStr(parsed[1]) \o <<".">> \o IntToStr(parsed[2])

----------------------------------------------------------------------------
(* The Store: db/db_create.py (schema) and db/database.py (DatabaseManager). *)
(* A table is the set of its rows; a query returns the set of rows it        *)
(* selects, so "no row" (None) is the empty set.                             *)

\* mutant: the query without the JOIN on Semester
get_repository_info_NoJoin(u, r) ==
    {row \in Repository : row.git_username = u /\ row.repository_name = r}

\* Repository JOIN Semester ON semester_name = name WHERE key = (u, r)
get_repository_info(u, r) ==
    {row \in Repository :
        /\ row.git_username = u
        /\ row.repository_name = r
        /\ \E s \in Semester : s.name = row.semester_name}

\* SELECT * FROM Semester WHERE name = ?
get_semester_info(semester_name) == {s \in Semester : s.name = semester_name}

\* exact match of release_name among the repository's TestResult rows,
\* whatever version the row was stored under
has_release_tag(u, r, tag) ==
    \E row \in TestResult :
        /\ row.git_username = u
        /\ row.repository_name = r
        /\ row.release_name = tag

\* the release_name values recorded for the repository
ReleaseNames(u, r) ==
    {row.release_name : row \in {x \in TestResult : x.git_username = u /\ x.repository_name = r}}

\* the orders in which a query without ORDER BY may return the set S
Orderings(S) ==
    {f \in [1..Cardinality(S) -> S] : \A i, j \in 1..Cardinality(S) : f[i] = f[j] => i = j}

\* all release_name values of the repository, unfiltered, in the order the
\* Store returns them (one of Orderings(ReleaseNames(u, r)))
get_release_tags(u, r, order) == order

\* the Version row of (semester_name, version_name), if any
get_version_info(semester_name, version_name) ==
    {v \in Version : v.semester_name = semester_name /\ v.version_name = version_name}

\* mutant: a row is added without replacing the one with the same key
record_test_result_Insert(version_name, release_name, u, r, test_status, issue_text) ==
    TestResult
    \cup {[version_name |-> version_name, release_name |-> release_name,
           git_username |-> u, repository_name |-> r, test_status |-> test_status,
           issue_text |-> issue_text]}

\* INSERT OR REPLACE INTO TestResult: the row replaces the one with the same
\* primary key (version_name, release_name, git_username, repository_name)
record_test_result(version_name, release_name, u, r, test_status, issue_text) ==
    {row \in TestResult :
        ~ (/\ row.version_name = version_name
           /\ row.release_name = release_name
           /\ row.git_username = u
           /\ row.repository_name = r)}
    \cup {[version_name |-> version_name, release_name |-> release_name,
           git_username |-> u, repository_name |-> r, test_status |-> test_status,
           issue_text |-> issue_text]}

\* the place of a status text in SQLite's order of TEXT values (BINARY
\* collation): 'ERROR' < 'FAILED' < 'PASS'
StatusRank(test_status) ==
    CASE test_status = "ERROR" -> 1
      [] test_status = "FAILED" -> 2
      [] test_status = "PASS" -> 3

\* what max() gives over a set of status texts
MaxStatus(statuses) ==
    CHOOSE s \in statuses : \A t \in statuses : StatusRank(t) <= StatusRank(s)

\* mutant: min(tes.test_status)
TestResultStatus_Min(u, r, version_name) ==
    {CHOOSE s \in {row.test_status : row \in group} :
        \A t \in {row.test_status : row \in group} : StatusRank(s) <= StatusRank(t) :
        group \in {{row \in TestResult : /\ row.git_username = u
                                         /\ row.repository_name = r
                                         /\ row.version_name = version_name}} \ {{}}}

\* view TestResultStatus: max(tes.test_status) ... GROUP BY git_username,
\* repository_name, version_name; the set holds the status of the group of
\* (u, r, version_name) and is empty when the group has no row
TestResultStatus(u, r, version_name) ==
    {MaxStatus({row.test_status : row \in group}) :
        group \in {{row \in TestResult : /\ row.git_username = u
                                         /\ row.repository_name = r
                                         /\ row.version_name = version_name}} \ {{}}}

\* view ReleaseStatus, columns version_name and test_status, for the
\* Versions whose date_from has passed (every Version row of the model):
\* Repository JOIN Version ON semester_name LEFT JOIN TestResultStatus
ReleaseStatus(u, r) ==
    {[version_name |-> ver.version_name,
      test_status |-> IF TestResultStatus(u, r, ver.version_name) = {}
                      THEN "NOT_FOUND"
                      ELSE CHOOSE s \in TestResultStatus(u, r, ver.version_name) : TRUE] :
        ver \in {v \in Version :
                    \E rep \in Repository : /\ rep.git_username = u
                                            /\ rep.repository_name = r
                                            /\ rep.semester_name = v.semester_name}}

\* DatabaseManager.get_repository_status: the rows of ReleaseStatus
get_repository_status(u, r) == ReleaseStatus(u, r)

\* RepoReport.db_update: one tag of the badge per row, (version, test_status)
db_update(u, r) ==
    {<<release.version_name, release.test_status>> : release \in get_repository_status(u, r)}

\* INSERT OR REPLACE INTO Repository ... VALUES (?, ?, '', 0, '', ?, '')
save_repository_with_installation(u, r, installation_id) ==
    {row \in Repository : ~ (row.git_username = u /\ row.repository_name = r)}
    \cup {[git_username |-> u, repository_name |-> r, semester_name |-> "",
           installation_id |-> installation_id]}

\* UPDATE Repository SET semester_name = ? ... WHERE key = (u, r)
update_repository_details(u, r, semester_name) ==
    {IF row.git_username = u /\ row.repository_name = r
     THEN [row EXCEPT !.semester_name = semester_name]
     ELSE row : row \in Repository}

\* INSERT OR REPLACE INTO User
save_or_update_user(u) == User \cup {u}

\* mutant: the DELETE FROM Repository is left out too
remove_repositories_by_installation_Keep(installation_id) == Repository

\* DELETE FROM Repository WHERE installation_id = ?  (the DELETE of the
\* TestResult rows is commented out in the source)
remove_repositories_by_installation(installation_id) ==
    {row \in Repository : row.installation_id # installation_id}

\* DELETE FROM User WHERE git_username NOT IN (SELECT git_username FROM Repository)
remove_orphaned_users(repository, user) ==
    {u \in user : \E row \in repository : row.git_username = u}

\* DELETE FROM TestResult WHERE git_username = ? AND repository_name = ?
remove_test_results_for_repo(u, r) ==
    {row \in TestResult : ~ (row.git_username = u /\ row.repository_name = r)}

\* DELETE FROM Repository WHERE git_username = ? AND repository_name = ?
remove_repository(u, r) ==
    {row \in Repository : ~ (row.git_username = u /\ row.repository_name = r)}

----------------------------------------------------------------------------
(* webhook_handler.process_tag_event *)

\* `if _parse_semver(t)`: a non-None parse is a non-empty tuple, hence truthy
IsSemver(t) == _parse_semver(t) # NoParse

\* mutant: the last element, in iteration order, whose MINOR is the largest
MaxByMinor_Last(prev_tags) ==
    LET key(i) == _parse_semver(prev_tags[i])[2]
        idx == CHOOSE i \in 1..Len(prev_tags) :
                  /\ \A j \in 1..Len(prev_tags) : key(j) <= key(i)
                  /\ \A j \in (i + 1)..Len(prev_tags) : key(j) < key(i)
    IN prev_tags[idx]

\* max(prev_tags, key=lambda t: _parse_semver(t)[1]): the first element, in
\* iteration order, whose MINOR is the largest
MaxByMinor(prev_tags) ==
    LET key(i) == _parse_semver(prev_tags[i])[2]
        idx == CHOOSE i \in 1..Len(prev_tags) :
                  /\ \A j \in 1..Len(prev_tags) : key(j) <= key(i)
                  /\ \A j \in 1..(i - 1) : key(j) < key(i)
    IN prev_tags[idx]

\* what one call returns and which collaborators it called:
\*   ret       "False" (the bare boolean) or "dict"
\*   status    the dict's "status" ("" for a bare boolean)
\*   reason    the dict's "reason" ("" when the dict has none)
\*   issue     create_github_issue was called
\*   issue_url the dict's "issue_url" is a URL (not None)
\*   dispatch  run_docker_container_async was called
\*   version   the version handed to the dispatcher (<<>> when none)
\*   last_tag  the reference tag of the monotonicity check (NoneTag when the
\*             check had no reference)
Outcome(ret, status, reason, issue, issue_url, dispatch, version, last_tag) ==
    [ret |-> ret, status |-> status, reason |-> reason, issue |-> issue,
     issue_url |-> issue_url, dispatch |-> dispatch, version |-> version,
     last_tag |-> last_tag]

\* mutant: a rejection that does not return and falls through to the dispatch
Ignored_FallsThrough(repo_info, reason, issue_result, version, last_tag) ==
    LET attempted == repo_info.installation_id # NullId
    IN Outcome("dict", "ignored", reason, attempted, attempted /\ issue_result = "url",
               TRUE, version, last_tag)

\* mutant: the issue is created outside the inner try, so that an exception
\* of create_github_issue reaches the handler's outer except
Ignored_RaisePropagates(repo_info, reason, issue_result, version, last_tag) ==
    LET attempted == repo_info.installation_id # NullId
    IN IF attempted /\ issue_result = "raise"
       THEN Outcome("dict", "error", "", TRUE, FALSE, FALSE, <<>>, last_tag)
       ELSE Outcome("dict", "ignored", reason, attempted, attempted /\ issue_result = "url",
                    FALSE, version, last_tag)

\* a rejection: the issue is attempted when the repository has an
\* installation_id; create_github_issue returns a URL ("url"), returns None
\* ("none") or raises ("raise"): the inner `except Exception: pass` swallows
\* the exception and issue_url stays None
Ignored(repo_info, reason, issue_result, version, last_tag) ==
    LET attempted == repo_info.installation_id # NullId
    IN Outcome("dict", "ignored", reason, attempted, attempted /\ issue_result = "url",
               FALSE, version, last_tag)

\* line 51: `if _parse_semver(tag_name) is None`
tag_is_invalid(tag_name) == _parse_semver(tag_name) = NoParse

\* mutant: the duplicate check is skipped
tag_is_duplicate_Skipped(u, r, tag_name) == FALSE

\* mutant: the duplicate check looks only at rows stored under the tag's own
\* MAJOR.MINOR version
tag_is_duplicate_SameVersion(u, r, tag_name) ==
    \E row \in TestResult :
        /\ row.git_username = u
        /\ row.repository_name = r
        /\ row.release_name = tag_name
        /\ row.version_name = MajorMinor(_parse_semver(tag_name))

\* mutant: the check also refuses a tag whose build is in flight
tag_is_duplicate_InFlight(u, r, tag_name) ==
    \/ has_release_tag(u, r, tag_name)
    \/ \E b \in BagToSet(running) :
        b.git_username = u /\ b.repository_name = r /\ b.release = tag_name

\* line 76: `if db_manager.has_release_tag(git_username, repository_name, tag_name)`
tag_is_duplicate(u, r, tag_name) == has_release_tag(u, r, tag_name)

\* lines 101-104: `if prev_tags:` ... `if not _is_greater_semver(tag_name, last_tag)`
tag_not_greater(tag_name, prev_tags) ==
    prev_tags # <<>> /\ ~ _is_greater_semver(tag_name, MaxByMinor(prev_tags))

\* the time of the tag event, on the scale of date_from and date_to
Now == 2

\* mutant: only a version whose window contains the time of the event counts
version_missing_WindowClosed(repo_info, major_minor) ==
    ~ \E v \in get_version_info(repo_info.semester_name, major_minor) :
        v.date_from <= Now /\ Now <= v.date_to

\* mutant: the version is looked up in every semester
version_missing_AnySemester(repo_info, major_minor) ==
    ~ \E v \in Version : v.version_name = major_minor

\* lines 142-143: `version_info = db_manager.get_version_info(...)`,
\* `if not version_info`
version_missing(repo_info, major_minor) ==
    get_version_info(repo_info.semester_name, major_minor) = {}

\* mutant: the version mapping is checked before the monotonicity
process_tag_event_VersionFirst(u, r, tag_name, order, issue_result, token_ok) ==
    LET found == get_repository_info(u, r) IN
    IF found = {} THEN
        Outcome("False", "", "", FALSE, FALSE, FALSE, <<>>, NoneTag)
    ELSE
    LET repo_info == CHOOSE row \in found : TRUE IN
    IF tag_is_invalid(tag_name) THEN
        Ignored(repo_info, "invalid_format", issue_result, <<>>, NoneTag)
    ELSE IF tag_is_duplicate(u, r, tag_name) THEN
        Ignored(repo_info, "duplicate", issue_result, <<>>, NoneTag)
    ELSE
    LET prev_tags == SelectSeq(get_release_tags(u, r, order), IsSemver)
        last_tag  == IF prev_tags # <<>> THEN MaxByMinor(prev_tags) ELSE NoneTag
        major_minor == MajorMinor(_parse_semver(tag_name))
    IN
    IF version_missing(repo_info, major_minor) THEN
        Ignored(repo_info, "version_not_found", issue_result, major_minor, last_tag)
    ELSE IF tag_not_greater(tag_name, prev_tags) THEN
        Ignored(repo_info, "not_greater", issue_result, <<>>, last_tag)
    ELSE IF get_semester_info(repo_info.semester_name) = {}
            \/ repo_info.installation_id = NullId THEN
        Outcome("False", "", "", FALSE, FALSE, FALSE, <<>>, last_tag)
    ELSE IF ~ token_ok THEN
        Outcome("dict", "error", "", FALSE, FALSE, FALSE, <<>>, last_tag)
    ELSE
        Outcome("dict", "started", "", FALSE, FALSE, TRUE, major_minor, last_tag)

\* order: the order in which get_release_tags returns the ledger
\* issue_result: what create_github_issue does: "url", "none" or "raise"
\* token_ok: generate_jwt_token and get_installation_token succeed (else raise)
process_tag_event(u, r, tag_name, order, issue_result, token_ok) ==
    LET found == get_repository_info(u, r) IN
    IF found = {} THEN
        Outcome("False", "", "", FALSE, FALSE, FALSE, <<>>, NoneTag)
    ELSE
    LET repo_info == CHOOSE row \in found : TRUE IN
    IF tag_is_invalid(tag_name) THEN
        Ignored(repo_info, "invalid_format", issue_result, <<>>, NoneTag)
    ELSE IF tag_is_duplicate(u, r, tag_name) THEN
        Ignored(repo_info, "duplicate", issue_result, <<>>, NoneTag)
    ELSE
    LET prev_tags == SelectSeq(get_release_tags(u, r, order), IsSemver)
        last_tag  == IF prev_tags # <<>> THEN MaxByMinor(prev_tags) ELSE NoneTag
    IN
    IF tag_not_greater(tag_name, prev_tags) THEN
        Ignored(repo_info, "not_greater", issue_result, <<>>, last_tag)
    ELSE
    LET major_minor == MajorMinor(_parse_semver(tag_name)) IN
    IF version_missing(repo_info, major_minor) THEN
        Ignored(repo_info, "version_not_found", issue_result, major_minor, last_tag)
    ELSE IF get_semester_info(repo_info.semester_name) = {}
            \/ repo_info.installation_id = NullId THEN
        Outcome("False", "", "", FALSE, FALSE, FALSE, <<>>, last_tag)
    ELSE IF ~ token_ok THEN
        \* the exception is caught by the handler's outer except
        Outcome("dict", "error", "", FALSE, FALSE, FALSE, <<>>, last_tag)
    ELSE
        Outcome("dict", "started", "", FALSE, FALSE, TRUE, major_minor, last_tag)

----------------------------------------------------------------------------
(* The handlers.  `last` is the response to the most recent request. *)

NoOutcome == Outcome("", "", "", FALSE, FALSE, FALSE, <<>>, NoneTag)

\* the body of a POST /api/test-result, the fields of main.TestResultData;
\* complete is FALSE when a required field is absent or is not a string
TestResultData(version_name, release_name, u, r, test_status, issue_text, complete) ==
    [version_name |-> version_name, release_name |-> release_name,
     git_username |-> u, repository_name |-> r, test_status |-> test_status,
     issue_text |-> issue_text, complete |-> complete]

\* a request to /api/test-result: its X-API-Secret header and its body
ApiRequest(x_api_secret, test_data) ==
    [x_api_secret |-> x_api_secret, test_data |-> test_data]

\* a request without an X-API-Secret header
NoHeader == "(no header)"

\* the request of a response that is not one of /api/test-result
NoRequest == ApiRequest(NoHeader, TestResultData(<<>>, <<>>, "", "", "", NoneText, FALSE))

\* env is how the collaborators behaved during the request (not part of the
\* response; kept so that a property can tell the cases apart)
Response(op, u, r, tag, env, result, status, code) ==
    [op |-> op, git_username |-> u, repository_name |-> r, tag |-> tag,
     env |-> env, result |-> result, status |-> status, code |-> code,
     request |-> NoRequest, installation_id |-> NullId, order |-> <<>>]

\* docker_ops.run_docker_container_async: `release[:4]`
VersionShort(release) == IF Len(release) >= 4 THEN SubSeq(release, 1, 4) ELSE release

\* the container run_docker_container_async launches; --version is the
\* first four characters of the release, --release the tag; monitored tells
\* that its _monitor_docker_process task is still waiting for it
Container(u, r, release) ==
    [git_username |-> u, repository_name |-> r,
     version |-> VersionShort(release), release |-> release, monitored |-> TRUE]

\* mutant: the subprocess is never created
run_docker_container_async_NoLaunch(u, r, release, docker_ok) == running

\* docker_ok: asyncio.create_subprocess_exec succeeds (a failure is logged
\* and swallowed by run_docker_container_async)
run_docker_container_async(u, r, release, docker_ok) ==
    IF docker_ok THEN running (+) SetToBag({Container(u, r, release)}) ELSE running

\* mutant: the status of the result is taken whatever the result is
TagResponseStatus_NoFallback(result) == result.status

\* mutant: an "error" result is answered as a plain acknowledgment
TagResponseStatus_HidesError(result) ==
    IF result.ret = "dict" /\ result.status # "error" THEN result.status
    ELSE IF result.ret = "dict" THEN "acknowledged"
    ELSE "error"

\* process_webhook_payload: the status of the response to a tag event, from
\* what process_tag_event returned
TagResponseStatus(result) ==
    IF result.ret = "dict" THEN result.status
    ELSE "error"   \* "success" if result else "error", and result is False

\* how the collaborators of one request behave: all succeed, or one fails
Envs == {"ok", "issue_fail", "issue_raise", "token_fail", "docker_fail"}

\* how the Store behaves during an uninstallation: both removals succeed,
\* or one of them meets a database error
DbOutcomes == {"ok", "repo_fail", "user_fail"}

\* what create_github_issue does under env
IssueResult(env) ==
    CASE env = "issue_fail"  -> "none"
      [] env = "issue_raise" -> "raise"
      [] OTHER               -> "url"

\* process_webhook_payload for a `create` event with ref_type "tag" or a
\* `push` event of refs/tags/<tag>, repository.full_name = u/r
webhook_tag_within(u, r, tag, order, env, max_running) ==
    \E result \in {process_tag_event(u, r, tag, order, IssueResult(env), env # "token_fail")} :
    \* a collaborator that is not called cannot fail
    /\ env \in {"issue_fail", "issue_raise"} => result.issue
    /\ env = "token_fail" => result.status = "error"
    /\ env = "docker_fail" => result.dispatch
    /\ running' = IF result.dispatch
                  THEN run_docker_container_async(u, r, tag, env # "docker_fail")
                  ELSE running
    /\ BagCardinality(running') <= max_running
    /\ admitted' = IF result.status = "started" THEN admitted \cup {<<u, r, tag>>}
                   ELSE admitted
    /\ last' = Response("tag", u, r, tag, env, result, TagResponseStatus(result), 200)
    /\ UNCHANGED Store

\* a tag event while at most MaxRunning containers are in flight
webhook_tag(u, r, tag, order, env) == webhook_tag_within(u, r, tag, order, env, MaxRunning)

\* the events process_webhook_payload answers without touching the Store:
\* an event type it does not handle, a tag event whose repository.full_name
\* has no "/", the installation action created and one it does not know
OtherEvents == {"ping", "tag_no_slash", "created", "suspend"}

\* the status of the answer to one of OtherEvents
OtherEventStatus(event) ==
    IF event = "created" THEN "success" ELSE "acknowledged"

\* process_webhook_payload for one of OtherEvents
webhook_other(event) ==
    /\ last' = Response("other", "", "", <<>>, event, NoOutcome, OtherEventStatus(event), 200)
    /\ UNCHANGED <<Store, running, admitted>>

\* the requests that /webhook does not bring to an answer of its handlers:
\* no X-GitHub-Event header, a body that is not JSON, and a payload on which
\* the processing raises outside the handlers' own try blocks (a null
\* "repository" or "installation", a body that is not an object)
WebhookFailures == {"no_header", "bad_json", "null_repository"}

\* mutant: the HTTPException(400) of the missing header reaches the client
WebhookFailureCode_Reraise(failure) ==
    IF failure \in {"no_header", "bad_json"} THEN 400 ELSE 500

\* the status code of the HTTPException that answers a failure: the 400 of
\* the missing header is raised inside the try and caught by `except
\* Exception`, which raises 500; json.JSONDecodeError is answered 400
WebhookFailureCode(failure) ==
    IF failure = "bad_json" THEN 400 ELSE 500

\* main.webhook / process_webhook_payload raising an HTTPException; the
\* body is {"detail": ...}, without a status field
webhook_fails(failure) ==
    /\ last' = Response("fails", "", "", <<>>, failure, NoOutcome, "",
                        WebhookFailureCode(failure))
    /\ UNCHANGED <<Store, running, admitted>>

\* SELECT * FROM Version WHERE date_from <= now <= date_to AND
\* semester_name = ?; open_now holds the version names whose window
\* contains the time of the call
get_active_versions(semester_name, open_now) ==
    {ver \in Version : ver.semester_name = semester_name /\ ver.version_name \in open_now}

\* main.webhook (POST /webhook) for a `create` event with ref_type "tag" or
\* a `push` event of refs/tags/<tag>, repository.full_name = u/r: for each
\* active version of the repository's semester run_actual_compilation_test
\* gives test_status[version_name] and record_test_result writes it
webhook(u, r, tag_name, open_now, test_status) ==
    LET found == get_repository_info(u, r)
        active_versions ==
            IF found = {} THEN {}
            ELSE get_active_versions((CHOOSE row \in found : TRUE).semester_name, open_now)
        names == {ver.version_name : ver \in active_versions}
    IN
    /\ DOMAIN test_status = names
    \* run_actual_compilation_test returns "ERROR" without an installation_id
    /\ \A row \in found :
         row.installation_id = NullId => \A v \in names : test_status[v] = "ERROR"
    /\ TestResult' =
         {row \in TestResult :
             ~ (/\ row.version_name \in names
                /\ row.release_name = tag_name
                /\ row.git_username = u
                /\ row.repository_name = r)}
         \cup {[version_name |-> v, release_name |-> tag_name, git_username |-> u,
                repository_name |-> r, test_status |-> test_status[v],
                issue_text |-> NoneText] : v \in names}
    /\ Cardinality(TestResult') <= MaxResults
    /\ last' = Response("webhook", u, r, tag_name, "", NoOutcome, "success", 200)
    /\ UNCHANGED <<Repository, Semester, Version, User, running, admitted>>

\* main.API_SECRET
API_SECRET == "your-default-secret-change-me"

\* Field(..., pattern="^(PASS|ERROR|FAILED)$")
TestStatusPattern == {"PASS", "ERROR", "FAILED"}

\* mutant: test_status declared as a plain str, without the pattern
ValidTestResultData_NoPattern(test_data) == test_data.complete

\* pydantic's validation of the body against TestResultData
ValidTestResultData(test_data) ==
    test_data.complete /\ test_data.test_status \in TestStatusPattern

\* main.verify_api_secret: 401 unless the header equals API_SECRET
verify_api_secret(x_api_secret) == x_api_secret = API_SECRET

\* the status code FastAPI answers with before the body of the handler
\* runs, 0 when it runs: the required Header() parameter of the dependency
\* is validated first (422 when absent), then the dependency is called,
\* then the body is validated
RequestRejection(x_api_secret, test_data) ==
    IF x_api_secret = NoHeader THEN 422
    ELSE IF ~ verify_api_secret(x_api_secret) THEN 401
    ELSE IF ~ ValidTestResultData(test_data) THEN 422
    ELSE 0

ApiResponse(x_api_secret, test_data, code) ==
    [Response("result", test_data.git_username, test_data.repository_name,
              test_data.release_name, "", NoOutcome, "", code)
     EXCEPT !.request = ApiRequest(x_api_secret, test_data)]

\* main.save_test_result (POST /api/test-result)
save_test_result(x_api_secret, test_data) ==
    LET rejection == RequestRejection(x_api_secret, test_data) IN
    IF rejection # 0
    THEN /\ last' = ApiResponse(x_api_secret, test_data, rejection)
         /\ UNCHANGED Store
    ELSE IF get_repository_info(test_data.git_username, test_data.repository_name) = {}
    THEN /\ last' = ApiResponse(x_api_secret, test_data, 404)
         /\ UNCHANGED Store
    ELSE /\ TestResult' = record_test_result(test_data.version_name, test_data.release_name,
                                             test_data.git_username, test_data.repository_name,
                                             test_data.test_status, test_data.issue_text)
         /\ Cardinality(TestResult') <= MaxResults
         /\ last' = ApiResponse(x_api_secret, test_data, 200)
         /\ UNCHANGED <<Repository, Semester, Version, User>>

\* a running container reports its result to the callback URL, with the
\* --api_secret it was given, and ends
container_callback(b, test_status, issue_text) ==
    /\ BagIn(b, running)
    /\ running' = running (-) SetToBag({b})
    /\ save_test_result(API_SECRET,
                        TestResultData(b.version, b.release, b.git_username,
                                       b.repository_name, test_status, issue_text, TRUE))
    /\ UNCHANGED admitted

\* a running container ends without reporting; _monitor_docker_process
\* only logs the return code
container_exit(b) ==
    /\ BagIn(b, running)
    /\ running' = running (-) SetToBag({b})
    /\ last' = Response("exit", "", "", <<>>, "", NoOutcome, "", 0)
    /\ UNCHANGED <<Store, admitted>>

\* the response of process_installation_event, with its installation_id
InstallationResponse(op, installation_id, env, status) ==
    [Response(op, "", "", <<>>, env, NoOutcome, status, 200)
     EXCEPT !.installation_id = installation_id]

\* process_installation_event, action "deleted": db tells which of the two
\* removals meets a database error (it then changes nothing and returns
\* False); remove_orphaned_users runs whatever the first one returned
installation_deleted(installation_id, db) ==
    \E repo_success \in {db # "repo_fail"}, user_success \in {db # "user_fail"} :
    /\ Repository' = IF repo_success
                     THEN remove_repositories_by_installation(installation_id)
                     ELSE Repository
    /\ User' = IF user_success THEN remove_orphaned_users(Repository', User) ELSE User
    /\ last' = InstallationResponse("deleted", installation_id, db,
                                    IF repo_success /\ user_success
                                    THEN "success" ELSE "error")
    /\ UNCHANGED <<Semester, Version, TestResult, running, admitted>>

\* _monitor_docker_process when asyncio.wait_for times out after 180 s: the
\* first statement of the handler formats the undefined name `timeout`, the
\* NameError is caught by the outer `except Exception` and logged, and the
\* task ends; process.kill(), process.wait() and create_github_issue are
\* not reached, and the container goes on running
container_timeout(b) ==
    /\ BagIn(b, running)
    /\ b.monitored
    /\ running' = (running (-) SetToBag({b})) (+) SetToBag({[b EXCEPT !.monitored = FALSE]})
    /\ last' = Response("timeout", b.git_username, b.repository_name, b.release, "",
                        NoOutcome, "", 0)
    /\ UNCHANGED <<Store, admitted>>

\* process_installation_event, action "removed" with repositories_removed = [u/r]
installation_removed(u, r) ==
    /\ TestResult' = remove_test_results_for_repo(u, r)
    /\ Repository' = remove_repository(u, r)
    /\ User' = remove_orphaned_users(Repository', User)
    /\ last' = Response("removed", "", "", <<>>, "", NoOutcome, "success", 200)
    /\ UNCHANGED <<Semester, Version, running, admitted>>

\* main.setup_callback (GET /setup?installation_id=): the installation's
\* repository is saved with empty details
setup_callback(u, r) ==
    /\ Repository' = save_repository_with_installation(u, r, InstallationOf(u, r))
    /\ last' = Response("setup", "", "", <<>>, "", NoOutcome, "", 200)
    /\ UNCHANGED <<Semester, Version, TestResult, User, running, admitted>>

\* setup_ops.process_setup_save for one repository of the form
save_setup(u, r, semester_name) ==
    /\ User' = save_or_update_user(u)
    /\ Repository' = update_repository_details(u, r, semester_name)
    /\ last' = Response("save", "", "", <<>>, "", NoOutcome, "", 200)
    /\ UNCHANGED <<Semester, Version, TestResult, running, admitted>>

----------------------------------------------------------------------------
(* Spec: the service from an empty Store.  One repository installs the app *)
(* and is set up; tag events may name either repository.                   *)

\* the administrator's tables (db/sample_data.py inserts rows of this shape)
SemesterRows == {[name |-> n] : n \in SemesterNames}
VersionRows ==
    {[semester_name |-> "BCC", version_name |-> V_1_0],
     [semester_name |-> "BCC", version_name |-> V_1_1],
     [semester_name |-> "BCC", version_name |-> V_10_2],
     [semester_name |-> "ENG", version_name |-> V_1_0]}

InitialResponse == Response("init", "", "", <<>>, "", NoOutcome, "", 0)

\* the repositories that install the app, the tags pushed and the semester
\* chosen in the setup form during a run of Spec
SysKeys == {<<"alice", "proj">>}
SysTags == {T_1_0_0, T_1_0_1, T_1_1_0, T_9_9_9, M_TwoParts}
SysSemesters == {"BCC"}
\* how the collaborators behave during a run of Spec
SysEnvs == {"ok", "issue_fail", "token_fail", "docker_fail"}

Init ==
    /\ Repository = {}
    /\ Semester = SemesterRows
    /\ Version = VersionRows
    /\ TestResult = {}
    /\ User = {}
    /\ running = EmptyBag
    /\ admitted = {}
    /\ last = InitialResponse

\* bodies of the requests to /api/test-result that no container sent
StrayData ==
    {TestResultData(V_1_0, T_1_0_0, k[1], k[2], st, NoneText, c) :
        k \in SysKeys, st \in {"PASS", "INVALID_STATUS"}, c \in BOOLEAN}

\* a request to /api/test-result from a sender that has not the secret, or
\* whose body is not a TestResultData (the containers alone are given the
\* secret, docker_ops.run_docker_container_async --api_secret)
stray_test_result(x_api_secret, test_data) ==
    /\ RequestRejection(x_api_secret, test_data) # 0
    /\ save_test_result(x_api_secret, test_data)
    /\ UNCHANGED <<running, admitted>>

\* the tags sent to the /webhook route of main, the sets of versions whose
\* window can be open at once and the statuses its tests give
RouteTags == {T_1_0_0, M_TwoParts}
OpenWindows == SUBSET {V_1_0, V_1_1}
RouteStatuses == {"PASS", "ERROR"}

RouteTagEvent ==
    \E k \in RepoKeys, tag \in RouteTags, open_now \in OpenWindows :
        \E names \in SUBSET open_now :
            \E test_status \in [names -> RouteStatuses] :
                webhook(k[1], k[2], tag, open_now, test_status)

TagEvent(tags, envs) ==
    \E k \in RepoKeys, tag \in tags, env \in envs :
        \E order \in Orderings(ReleaseNames(k[1], k[2])) :
            webhook_tag(k[1], k[2], tag, order, env)

Next ==
    \/ TagEvent(SysTags, SysEnvs)
    \/ \E event \in OtherEvents : webhook_other(event)
    \/ \E failure \in WebhookFailures : webhook_fails(failure)
    \/ \E b \in BagToSet(running), rp \in Reports : container_callback(b, rp[1], rp[2])
    \/ \E b \in BagToSet(running) : container_exit(b)
    \/ \E k \in SysKeys, db \in DbOutcomes :
        installation_deleted(InstallationOf(k[1], k[2]), db)
    \/ \E k \in SysKeys : installation_removed(k[1], k[2])
    \/ \E k \in SysKeys : setup_callback(k[1], k[2])
    \/ \E k \in SysKeys, sem \in SysSemesters : save_setup(k[1], k[2], sem)

Spec == Init /\ [][Next]_vars

----------------------------------------------------------------------------
(* SpecDecide: one tag event against a Store drawn from the states the     *)
(* service can be in.  Any TestResult row of a registered repository can   *)
(* be written through POST /api/test-result, rows outlive an uninstalled   *)
(* repository, and installation_id is a nullable column.                   *)

RepositoryRow(u, r, semester_name, installation_id) ==
    [git_username |-> u, repository_name |-> r, semester_name |-> semester_name,
     installation_id |-> installation_id]

ResultRow(u, r, version_name, release_name) ==
    [version_name |-> version_name, release_name |-> release_name,
     git_username |-> u, repository_name |-> r, test_status |-> "PASS",
     issue_text |-> NoneText]

\* alice/proj: absent, installed but not set up, or set up in a semester
AliceConfigs ==
    {{}} \cup {{RepositoryRow("alice", "proj", s, 1)} : s \in {"", "BCC", "ENG"}}
\* bob/comp: absent, or set up in ENG with or without an installation_id
BobConfigs ==
    {{}} \cup {{RepositoryRow("bob", "comp", "ENG", i)} : i \in {2, NullId}}

LedgerRows ==
    {ResultRow("alice", "proj", VersionShort(t), t) :
        t \in {T_1_0_0, T_1_0_1, T_1_1_0, T_10_2_3, M_TwoParts}}
    \cup {ResultRow("alice", "proj", V_1_1, T_1_0_0),
          ResultRow("bob", "comp", V_1_0, T_1_0_1)}

InitDecide ==
    /\ \E a \in AliceConfigs, b \in BobConfigs : Repository = a \cup b
    /\ Semester = SemesterRows
    /\ Version = VersionRows
    /\ TestResult \in {rows \in SUBSET LedgerRows : Cardinality(rows) <= MaxLedger}
    /\ User = {row.git_username : row \in Repository}
    /\ running = EmptyBag
    /\ admitted = {}
    /\ last = InitialResponse

NextDecide == last.op = "init" /\ TagEvent(Tags, Envs)

SpecDecide == InitDecide /\ [][NextDecide]_vars

----------------------------------------------------------------------------
(* SpecWindow: one tag event, from Stores whose Version rows carry their   *)
(* window (date_from, date_to): closed, open or not yet open at the time   *)
(* of the event.                                                           *)

\* date_from and date_to of a window that is closed, open, not yet open
Windows == {<<1, 1>>, <<1, 3>>, <<3, 3>>}

\* the Version table with a window for each row
VersionRowsWithin(window) ==
    {[semester_name |-> v.semester_name, version_name |-> v.version_name,
      date_from |-> window[v][1], date_to |-> window[v][2]] : v \in VersionRows}

WindowTags == {T_1_0_0, T_1_0_1, T_1_1_0, T_9_9_9, T_10_2_3, M_TwoParts}

WindowLedgerRows ==
    {ResultRow("alice", "proj", V_1_0, T_1_0_0), ResultRow("alice", "proj", V_1_0, T_1_0_1)}

InitWindow ==
    /\ \E s \in {"BCC", "ENG"} : Repository = {RepositoryRow("alice", "proj", s, 1)}
    /\ Semester = SemesterRows
    /\ \E window \in [VersionRows -> Windows] : Version = VersionRowsWithin(window)
    /\ TestResult \in SUBSET WindowLedgerRows
    /\ User = {"alice"}
    /\ running = EmptyBag
    /\ admitted = {}
    /\ last = InitialResponse

NextWindow == last.op = "init" /\ TagEvent(WindowTags, {"ok"})

SpecWindow == InitWindow /\ [][NextWindow]_vars

----------------------------------------------------------------------------
(* SpecPriority: one tag event for alice/proj, from Stores in which a tag  *)
(* can fail several checks at once: any part of the Version table, the     *)
(* repository absent, installed or set up, a ledger with malformed names.  *)

PriorityTags == {T_1_0_0, T_1_0_1, T_1_1_0, T_01_0_1, M_TwoParts, M_Empty}

PriorityLedgerRows ==
    {ResultRow("alice", "proj", VersionShort(t), t) : t \in {T_1_0_0, T_1_0_1, M_TwoParts}}

InitPriority ==
    /\ Repository \in AliceConfigs
    /\ Semester = SemesterRows
    /\ Version \in SUBSET VersionRows
    /\ TestResult \in SUBSET PriorityLedgerRows
    /\ User = {row.git_username : row \in Repository}
    /\ running = EmptyBag
    /\ admitted = {}
    /\ last = InitialResponse

NextPriority ==
    /\ last.op = "init"
    /\ \E tag \in PriorityTags, env \in {"ok", "issue_fail"} :
         \E order \in Orderings(ReleaseNames("alice", "proj")) :
            webhook_tag("alice", "proj", tag, order, env)

SpecPriority == InitPriority /\ [][NextPriority]_vars

----------------------------------------------------------------------------
(* SpecReference: the choice of the reference tag of the monotonicity      *)
(* check (process_tag_event lines 100-103), applied to the ledger of a     *)
(* repository in each order in which get_release_tags can return it.       *)

\* lines 100-103: prev_tags and last_tag; the response keeps the order and
\* the reference chosen (NoneTag when prev_tags is empty)
select_reference(u, r, order) ==
    LET prev_tags == SelectSeq(get_release_tags(u, r, order), IsSemver)
        last_tag  == IF prev_tags # <<>> THEN MaxByMinor(prev_tags) ELSE NoneTag
    IN
    /\ last' = [Response("reference", u, r, <<>>, "",
                         Outcome("", "", "", FALSE, FALSE, FALSE, <<>>, last_tag), "", 0)
                EXCEPT !.order = order]
    /\ UNCHANGED <<Store, running, admitted>>

NextReference ==
    /\ last.op = "init"
    /\ \E k \in RepoKeys :
         \E order \in Orderings(ReleaseNames(k[1], k[2])) : select_reference(k[1], k[2], order)

SpecReference == InitDecide /\ [][NextReference]_vars

----------------------------------------------------------------------------
(* SpecRace: deliveries of tag events for one registered repository that   *)
(* overlap: a delivery is decided while the builds of earlier ones are     *)
(* still in flight.  process_tag_event reads the Store without awaiting    *)
(* between its checks and writes nothing, so deliveries that interleave at *)
(* its awaits decide as deliveries handled one after the other against the *)
(* same Store.                                                             *)

RaceTags == {T_1_0_0, T_1_0_1, T_01_0_1}
RaceEnvs == {"ok", "token_fail"}

InitRace ==
    /\ Repository = {RepositoryRow("alice", "proj", "BCC", 1)}
    /\ Semester = SemesterRows
    /\ Version = VersionRows
    /\ TestResult = {}
    /\ User = {"alice"}
    /\ running = EmptyBag
    /\ admitted = {}
    /\ last = InitialResponse

NextRace ==
    \/ \E tag \in RaceTags, env \in RaceEnvs :
        \E order \in Orderings(ReleaseNames("alice", "proj")) :
            webhook_tag_within("alice", "proj", tag, order, env, MaxInFlight)
    \/ \E b \in BagToSet(running), rp \in Reports : container_callback(b, rp[1], rp[2])
    \/ \E b \in BagToSet(running) : container_exit(b)

SpecRace == InitRace /\ [][NextRace]_vars

----------------------------------------------------------------------------
(* SpecRouting: how process_webhook_payload reads an event: which events   *)
(* reach process_tag_event and with which arguments.  Texts are sequences  *)
(* of characters, so that the split of repository.full_name and the       *)
(* removal of "refs/tags/" are computed.                                   *)

\* "refs/tags/"
RefsTags == <<"r","e","f","s","/","t","a","g","s","/">>

\* s.startswith(prefix)
StartsWith(s, prefix) ==
    Len(s) >= Len(prefix) /\ SubSeq(s, 1, Len(prefix)) = prefix

\* s.replace(old, ""): every occurrence of old, found from the left and not
\* overlapping, is removed
RECURSIVE RemoveAll(_, _)
RemoveAll(s, old) ==
    IF Len(s) < Len(old) THEN s
    ELSE IF SubSeq(s, 1, Len(old)) = old
         THEN RemoveAll(SubSeq(s, Len(old) + 1, Len(s)), old)
         ELSE <<s[1]>> \o RemoveAll(Tail(s), old)

\* "/" in repo_name
HasSlash(repo_name) == \E i \in 1..Len(repo_name) : repo_name[i] = "/"

\* repo_name.split("/", 1): the texts before and after the first "/"
SplitOnce(repo_name) ==
    LET i == CHOOSE k \in 1..Len(repo_name) :
                /\ repo_name[k] = "/"
                /\ \A j \in 1..(k - 1) : repo_name[j] # "/"
    IN <<SubSeq(repo_name, 1, i - 1), SubSeq(repo_name, i + 1, Len(repo_name))>>

\* what process_webhook_payload does with an event: calls is the number of
\* calls of process_tag_event, with the arguments given; status is the
\* status it answers when it is not the one process_tag_event returns
Routed(calls, git_username, repository_name, tag_name, status) ==
    [calls |-> calls, git_username |-> git_username,
     repository_name |-> repository_name, tag_name |-> tag_name, status |-> status]

\* process_webhook_payload for an event that is not an installation event;
\* payload has ref_type, ref and full_name (repository.full_name)
process_webhook_payload(event_type, payload) ==
    IF event_type = "create" /\ payload.ref_type = "tag" /\ HasSlash(payload.full_name)
    THEN Routed(1, SplitOnce(payload.full_name)[1], SplitOnce(payload.full_name)[2],
                payload.ref, "")
    ELSE IF /\ event_type = "push"
            /\ StartsWith(payload.ref, RefsTags)
            /\ HasSlash(payload.full_name)
    THEN Routed(1, SplitOnce(payload.full_name)[1], SplitOnce(payload.full_name)[2],
                RemoveAll(payload.ref, RefsTags), "")
    ELSE Routed(0, <<>>, <<>>, <<>>, "acknowledged")

\* the events of SpecRouting
RoutingEventTypes == {"create", "push", "ping", "issues"}
RoutingRefTypes == {"tag", "branch"}
RoutingRefs ==
    {T_1_0_0, M_TwoParts, RefsTags \o T_1_0_0, RefsTags \o M_TwoParts,
     <<"r","e","f","s","/","h","e","a","d","s","/","m","a","i","n">>,
     RefsTags \o RefsTags \o T_1_0_0,
     RefsTags \o <<"v","1",".">> \o RefsTags \o <<"0",".","0">>}
RoutingFullNames ==
    {<<"a","l","i","c","e","/","p","r","o","j">>, <<"a","l","i","c","e">>,
     <<"o","r","g","/","t","e","a","m","/","p">>, <<"u","n","k","n","o","w","n">>}

\* an event is read; the response keeps the event and what was made of it
route_event(event_type, payload) ==
    /\ last' = [Response("routed", "", "", <<>>, event_type,
                         process_webhook_payload(event_type, payload), "", 200)
                EXCEPT !.request = payload]
    /\ UNCHANGED <<Store, running, admitted>>

NextRouting ==
    \E event_type \in RoutingEventTypes, ref_type \in RoutingRefTypes,
       ref \in RoutingRefs, full_name \in RoutingFullNames :
        route_event(event_type, [ref_type |-> ref_type, ref |-> ref, full_name |-> full_name])

SpecRouting == Init /\ [][NextRouting]_vars

----------------------------------------------------------------------------
(* SpecRoute: the service as main.py wires it.  POST /webhook is served by *)
(* main.webhook, which handles the tag events itself and does not call     *)
(* webhook_handler.process_webhook_payload; its installation branches are  *)
(* the code of process_installation_event over again.                      *)

NextRoute ==
    \/ RouteTagEvent
    \/ \E event \in OtherEvents : webhook_other(event)
    \/ \E failure \in WebhookFailures : webhook_fails(failure)
    \/ \E secret \in Secrets, data \in StrayData : stray_test_result(secret, data)
    \/ \E k \in SysKeys, db \in DbOutcomes :
        installation_deleted(InstallationOf(k[1], k[2]), db)
    \/ \E k \in SysKeys : installation_removed(k[1], k[2])
    \/ \E k \in SysKeys : setup_callback(k[1], k[2])
    \/ \E k \in SysKeys, sem \in SysSemesters : save_setup(k[1], k[2], sem)

SpecRoute == Init /\ [][NextRoute]_vars

----------------------------------------------------------------------------
(* SpecBuild: the life of the containers of admitted tags, from the moment *)
(* run_docker_container_async has launched them: each reports its result,  *)
(* ends without reporting, or is still running when its monitor times out. *)
(* A timeout changes neither the Store nor what the container can do next, *)
(* so Spec leaves it out.                                                  *)

\* the tags in flight
BuildTags == {T_1_0_0, T_1_0_1, T_1_1_0}

InitBuild ==
    /\ Repository = {RepositoryRow("alice", "proj", "BCC", 1)}
    /\ Semester = SemesterRows
    /\ Version = VersionRows
    /\ TestResult = {}
    /\ User = {"alice"}
    /\ \E t1 \in BuildTags, t2 \in BuildTags :
         /\ running \in {SetToBag({Container("alice", "proj", t1)}),
                         SetToBag({Container("alice", "proj", t1)})
                            (+) SetToBag({Container("alice", "proj", t2)})}
         /\ admitted = {<<b.git_username, b.repository_name, b.release>> :
                            b \in BagToSet(running)}
    /\ last = InitialResponse

NextBuild ==
    \/ \E b \in BagToSet(running), rp \in Reports : container_callback(b, rp[1], rp[2])
    \/ \E b \in BagToSet(running) : container_exit(b)
    \/ \E b \in BagToSet(running) : container_timeout(b)

SpecBuild == InitBuild /\ [][NextBuild]_vars

----------------------------------------------------------------------------
(* SpecRecord: any sequence of requests to /api/test-result, from any     *)
(* sender, against a Store with one registered repository.                *)

\* (version_name, release_name) of the bodies
RecordPairs == {<<V_1_0, T_1_0_0>>, <<V_1_0, T_1_0_1>>, <<V_1_1, T_1_1_0>>}

\* the bodies that pass validation and those that do not
RecordData ==
    {TestResultData(p[1], p[2], k[1], k[2], st, txt, TRUE) :
        p \in RecordPairs, k \in RepoKeys, st \in TestStatusPattern, txt \in IssueTexts}
    \cup {TestResultData(V_1_0, T_1_0_0, k[1], k[2], st, NoneText, c) :
            k \in RepoKeys, st \in {"PASS", "INVALID_STATUS"}, c \in BOOLEAN}

\* the requests: every body with the secret, some without it
RecordRequests ==
    {ApiRequest(API_SECRET, d) : d \in RecordData}
    \cup {ApiRequest(x, TestResultData(V_1_0, T_1_0_0, k[1], k[2], st, NoneText, TRUE)) :
            x \in Secrets, k \in RepoKeys, st \in {"PASS", "INVALID_STATUS"}}

InitRecord ==
    /\ Repository = {RepositoryRow("alice", "proj", "BCC", 1)}
    /\ Semester = SemesterRows
    /\ Version = VersionRows
    /\ TestResult = {}
    /\ User = {"alice"}
    /\ running = EmptyBag
    /\ admitted = {}
    /\ last = InitialResponse

NextRecord ==
    \E request \in RecordRequests :
        /\ save_test_result(request.x_api_secret, request.test_data)
        /\ UNCHANGED <<running, admitted>>

SpecRecord == InitRecord /\ [][NextRecord]_vars

----------------------------------------------------------------------------
(* What the properties are stated against: the grammar and the numeric     *)
(* components of each tag of the universe, written out, so that the        *)
(* parser and the formatter of the model are checked and not assumed.      *)

MatchesGrammar(t) == t \in WellFormedTags

SemverOf(t) ==
    CASE t = T_1_0_0  -> <<1, 0, 0>>
      [] t = T_1_0_1  -> <<1, 0, 1>>
      [] t = T_1_1_0  -> <<1, 1, 0>>
      [] t = T_9_9_9  -> <<9, 9, 9>>
      [] t = T_10_2_3 -> <<10, 2, 3>>
      [] t = T_01_0_1 -> <<1, 0, 1>>

VersionNameOf(t) ==
    CASE t = T_1_0_0  -> V_1_0
      [] t = T_1_0_1  -> V_1_0
      [] t = T_1_1_0  -> V_1_1
      [] t = T_9_9_9  -> <<"v", "9", ".", "9">>
      [] t = T_10_2_3 -> V_10_2
      [] t = T_01_0_1 -> V_1_0

\* the repository has a row whose semester is a row of Semester
Registered(u, r) ==
    \E row \in Repository :
        /\ row.git_username = u
        /\ row.repository_name = r
        /\ row.semester_name \in {sem.name : sem \in Semester}

\* the release ledger of the repository
Ledger(u, r) ==
    {row.release_name :
        row \in {x \in TestResult : x.git_username = u /\ x.repository_name = r}}

\* the response in `last` answers a tag event for repository (u, r), tag t
TagEventFor(u, r, t) ==
    /\ last.op = "tag"
    /\ last.git_username = u
    /\ last.repository_name = r
    /\ last.tag = t

IsRejection(result, reason) ==
    result.ret = "dict" /\ result.status = "ignored" /\ result.reason = reason

----------------------------------------------------------------------------
(* C1 *)

\* C1 as stated: once process_tag_event has admitted tag t for repository
\* R, every later process_tag_event(R, t) returns the duplicate rejection
\* and triggers no dispatch, whether or not the build reported a result.
C1_Original ==
    [][(last'.op = "tag"
        /\ <<last'.git_username, last'.repository_name, last'.tag>> \in admitted)
       => (IsRejection(last'.result, "duplicate") /\ ~ last'.result.dispatch)]_vars

\* C1 as amended: once process_tag_event has admitted tag t for repository R
\* and a result for t is recorded in R's ledger, every later
\* process_tag_event(R, t) returns the duplicate rejection and triggers no
\* dispatch, for as long as the row and the repository stay in the Store.
C1_DuplicateOnceRecorded ==
    [][(/\ last'.op = "tag"
        /\ <<last'.git_username, last'.repository_name, last'.tag>> \in admitted
        /\ last'.tag \in Ledger(last'.git_username, last'.repository_name)
        /\ Registered(last'.git_username, last'.repository_name))
       => (/\ IsRejection(last'.result, "duplicate")
           /\ ~ last'.result.dispatch
           /\ running' = running)]_vars

\* a tag that was admitted, then recorded, is rejected as a duplicate
C1_Witness ==
    /\ last.op = "tag"
    /\ <<last.git_username, last.repository_name, last.tag>> \in admitted
    /\ last.tag \in Ledger(last.git_username, last.repository_name)
    /\ IsRejection(last.result, "duplicate")

----------------------------------------------------------------------------
(* C2 *)

\* C2: if a TestResult row with release_name = t exists for a registered
\* repository R, whatever version_name it is stored under, then
\* process_tag_event(R, t) for the well-formed tag t returns the duplicate
\* rejection and dispatches nothing.
C2_RecordedTagIsDuplicate ==
    \A k \in RepoKeys, t \in WellFormedTags :
        (/\ TagEventFor(k[1], k[2], t)
         /\ Registered(k[1], k[2])
         /\ t \in Ledger(k[1], k[2]))
        => (/\ IsRejection(last.result, "duplicate")
            /\ ~ last.result.dispatch
            /\ running = EmptyBag)

\* a duplicate rejection for a tag whose only row is stored under a version
\* name other than the tag's MAJOR.MINOR
C2_Witness ==
    /\ last.op = "tag"
    /\ IsRejection(last.result, "duplicate")
    /\ MatchesGrammar(last.tag)
    /\ \A row \in TestResult :
          (/\ row.git_username = last.git_username
           /\ row.repository_name = last.repository_name
           /\ row.release_name = last.tag)
          => row.version_name # VersionNameOf(last.tag)

----------------------------------------------------------------------------
(* C3 *)

\* C3: for a registered repository, process_tag_event returns the malformed
\* rejection (status "ignored", reason "invalid_format") exactly for the
\* tags that do not fully match v<digits>.<digits>.<digits>, a missing ref
\* included; no fully matching tag is rejected as malformed.
C3_MalformedIffRejected ==
    last.op = "tag"
    => (/\ Registered(last.git_username, last.repository_name)
           => (~ MatchesGrammar(last.tag) <=> IsRejection(last.result, "invalid_format"))
        /\ MatchesGrammar(last.tag) => last.result.reason # "invalid_format")

\* a tag with a suffix after a well-formed tag is rejected as malformed
C3_Witness ==
    /\ last.op = "tag"
    /\ last.tag = M_Suffix
    /\ IsRejection(last.result, "invalid_format")

----------------------------------------------------------------------------
(* C4 *)

\* the well-formed tags of the repository's ledger
WellFormedLedger(u, r) == Ledger(u, r) \cap WellFormedTags

SameMajorMinor(a, b) == SemverOf(a)[1] = SemverOf(b)[1] /\ SemverOf(a)[2] = SemverOf(b)[2]

\* the tag event in `last` is for a registered repository and a well-formed
\* tag that is not in the ledger: it reaches the monotonicity check
ReachesMonotonicity ==
    /\ last.op = "tag"
    /\ Registered(last.git_username, last.repository_name)
    /\ MatchesGrammar(last.tag)
    /\ last.tag \notin Ledger(last.git_username, last.repository_name)

C4_WitnessLowerPasses ==
    /\ ReachesMonotonicity
    /\ last.tag = T_1_0_0
    /\ last.result.last_tag = T_10_2_3
    /\ last.result.reason # "not_greater"

----------------------------------------------------------------------------
(* C5 *)

\* C5: whenever process_tag_event admits tag vX.Y.Z for repository R, no
\* tag vX.Y.Z' with Z' >= Z is already in R's release ledger, whatever
\* MAJOR.MINOR pairs the ledger holds.
C5_AdmittedAbovePriorReleases ==
    (last.op = "tag" /\ last.result.status = "started")
    => \A l \in WellFormedLedger(last.git_username, last.repository_name) :
          SameMajorMinor(l, last.tag) => SemverOf(l)[3] < SemverOf(last.tag)[3]

----------------------------------------------------------------------------
(* C6 *)

NotAbove(t, ref) == SameMajorMinor(t, ref) /\ SemverOf(t)[3] <= SemverOf(ref)[3]

\* the tag in `last` passes the monotonicity check: against the reference
\* the call used or, when the call did not come to choose one, against
\* every well-formed ledger tag of the highest MINOR
PassesMonotonicity ==
    LET wf == WellFormedLedger(last.git_username, last.repository_name)
        ref == last.result.last_tag
    IN IF ref \in wf THEN ~ NotAbove(last.tag, ref)
       ELSE \A l \in wf :
               (\A m \in wf : SemverOf(m)[2] <= SemverOf(l)[2]) => ~ NotAbove(last.tag, l)

\* the semester of the repository has a Version row for the tag's MAJOR.MINOR
VersionMapped(u, r, t) ==
    \E row \in Repository, v \in Version :
        /\ row.git_username = u
        /\ row.repository_name = r
        /\ v.semester_name = row.semester_name
        /\ v.version_name = VersionNameOf(t)

\* C6: for a well-formed tag vX.Y.Z that passes the duplicate and the
\* monotonicity checks, if no Version row exists for (the repository's
\* semester_name, "vX.Y") then process_tag_event returns the
\* unmapped-version rejection (reason "version_not_found"), with "vX.Y" as
\* the version looked up, and no build is dispatched.
C6_UnmappedVersionRejected ==
    (/\ ReachesMonotonicity
     /\ PassesMonotonicity
     /\ ~ VersionMapped(last.git_username, last.repository_name, last.tag))
    => (/\ IsRejection(last.result, "version_not_found")
        /\ last.result.version = VersionNameOf(last.tag)
        /\ ~ last.result.dispatch
        /\ running = EmptyBag)

\* a tag whose MAJOR.MINOR is a Version of another semester only
C6_Witness ==
    /\ ReachesMonotonicity
    /\ IsRejection(last.result, "version_not_found")
    /\ \E v \in Version : v.version_name = VersionNameOf(last.tag)

----------------------------------------------------------------------------
(* C7 *)

\* the repository has a row in Repository
InStore(u, r) ==
    \E row \in Repository : row.git_username = u /\ row.repository_name = r

\* the repository's row has an installation_id
HasInstallation(u, r) ==
    \E row \in Repository :
        /\ row.git_username = u
        /\ row.repository_name = r
        /\ row.installation_id # NullId

\* the tag event in `last` is for a repository of the Store and a well-formed
\* tag that is not in the ledger, passes the monotonicity check and has a
\* Version row in the repository's semester
PassesEveryCheck ==
    /\ last.op = "tag"
    /\ InStore(last.git_username, last.repository_name)
    /\ MatchesGrammar(last.tag)
    /\ last.tag \notin Ledger(last.git_username, last.repository_name)
    /\ PassesMonotonicity
    /\ VersionMapped(last.git_username, last.repository_name, last.tag)

\* C7 as stated: a tag that passes every check is admitted and a build
\* dispatch is triggered for it; no further precondition is needed.
C7_Original ==
    PassesEveryCheck => (last.result.status = "started" /\ last.result.dispatch)

\* C7 as amended: for a repository that get_repository_info finds, a tag
\* that passes every check is admitted and exactly one build dispatch is
\* triggered for it, for "vX.Y" and the tag, provided the repository's row
\* has an installation_id and the installation token is obtained; the
\* dispatch starts one container for the tag unless the launch itself fails.
C7_AdmittedWithInstallationAndToken ==
    (/\ PassesEveryCheck
     /\ Registered(last.git_username, last.repository_name)
     /\ HasInstallation(last.git_username, last.repository_name)
     /\ last.env # "token_fail")
    => (/\ last.result.ret = "dict"
        /\ last.result.status = "started"
        /\ last.status = "started"
        /\ last.result.dispatch
        /\ last.result.version = VersionNameOf(last.tag)
        /\ BagCardinality(running) = (IF last.env = "docker_fail" THEN 0 ELSE 1)
        /\ \A c \in BagToSet(running) :
              /\ c.git_username = last.git_username
              /\ c.repository_name = last.repository_name
              /\ c.release = last.tag)

\* the tag of two-digit MAJOR is admitted and its container is running
C7_Witness ==
    /\ PassesEveryCheck
    /\ last.tag = T_10_2_3
    /\ last.result.status = "started"
    /\ BagCardinality(running) = 1

----------------------------------------------------------------------------
(* C8 *)

AdmissionReasons == {"invalid_format", "duplicate", "not_greater", "version_not_found"}

IsDecision(result) ==
    /\ result.ret = "dict"
    /\ \/ result.status = "ignored" /\ result.reason \in AdmissionReasons
       \/ result.status = "started"

\* C8 as stated: for every tag matching v\d+\.\d+\.\d+ and every Store state
\* process_tag_event returns one of the five admission decisions, never a
\* bare boolean and never an "error" outcome.
C8_Original ==
    (last.op = "tag" /\ MatchesGrammar(last.tag)) => IsDecision(last.result)

\* C8 as amended: for every tag matching v\d+\.\d+\.\d+ and every Store
\* state process_tag_event never raises and returns one of the admission
\* decisions, except that it returns the bare boolean False exactly when
\* get_repository_info does not find the repository, or the tag passes every
\* check and the repository's row has no installation_id, and an "error"
\* outcome exactly when the tag passes every check, the row has an
\* installation_id and acquiring the installation token raises.
C8_DecisionOrNamedFailure ==
    (last.op = "tag" /\ MatchesGrammar(last.tag)) =>
        LET u == last.git_username
            r == last.repository_name
            noInstallation == Registered(u, r) /\ PassesEveryCheck /\ ~ HasInstallation(u, r)
            tokenRaises == /\ Registered(u, r) /\ PassesEveryCheck /\ HasInstallation(u, r)
                           /\ last.env = "token_fail"
        IN /\ last.result.ret \in {"dict", "False"}
           /\ last.result.ret = "False" <=> (~ Registered(u, r) \/ noInstallation)
           /\ (last.result.ret = "dict" /\ last.result.status = "error") <=> tokenRaises
           /\ (~ tokenRaises /\ last.result.ret = "dict") => IsDecision(last.result)
           /\ last.result.reason # "invalid_format"
           /\ last.result.ret = "False" => (~ last.result.dispatch /\ ~ last.result.issue)
           /\ last.result.status = "error" => ~ last.result.dispatch

\* a well-formed tag answered with the "error" outcome
C8_Witness ==
    /\ last.op = "tag"
    /\ MatchesGrammar(last.tag)
    /\ last.result.ret = "dict"
    /\ last.result.status = "error"
    /\ last.env = "token_fail"

----------------------------------------------------------------------------
(* C9 *)

\* C9: process_tag_event never writes to the Store (Repository, Version,
\* Semester, TestResult, User) in any outcome, and whenever it returns a
\* rejection no build dispatch was triggered: the running containers are
\* the ones that were running before.
C9_RejectionHasNoEffect ==
    [][last'.op = "tag"
       => (/\ Store' = Store
           /\ (last'.result.status = "ignored" /\ last'.result.reason \in AdmissionReasons)
              => (running' = running /\ ~ last'.result.dispatch /\ admitted' = admitted))]_vars

\* a tag is rejected while the build of an earlier tag is running and a
\* result is in the ledger
C9_Witness ==
    /\ last.op = "tag"
    /\ IsRejection(last.result, "not_greater")
    /\ running # EmptyBag
    /\ TestResult # {}

----------------------------------------------------------------------------
(* C10 *)

\* C10: when a tag event names a repository that get_repository_info does
\* not find, the event is silently ignored: no issue is opened, no build is
\* dispatched, and the webhook result does not report an error.
C10_UnregisteredSilentlyIgnored ==
    (last.op = "tag" /\ ~ Registered(last.git_username, last.repository_name))
    => (/\ ~ last.result.issue
        /\ ~ last.result.dispatch
        /\ last.status # "error")

----------------------------------------------------------------------------
(* C11 *)

\* the rejection the Store and the tag call for, "" when every check passes
ExpectedRejection ==
    LET u == last.git_username
        r == last.repository_name
    IN IF ~ MatchesGrammar(last.tag) THEN "invalid_format"
       ELSE IF last.tag \in Ledger(u, r) THEN "duplicate"
       ELSE IF ~ PassesMonotonicity THEN "not_greater"
       ELSE IF ~ VersionMapped(u, r, last.tag) THEN "version_not_found"
       ELSE ""

\* C11: for every rejection the returned status and reason are the same
\* whether create_github_issue returns a URL, returns None or raises (only
\* issue_url differs: it is a URL only when one was returned); and for an
\* admitted tag a failure while launching the container leaves the admitted
\* result returned by process_tag_event.
C11_CollaboratorFailuresKeepDecision ==
    (last.op = "tag" /\ Registered(last.git_username, last.repository_name)) =>
        /\ ExpectedRejection # ""
           => (/\ IsRejection(last.result, ExpectedRejection)
               /\ last.status = "ignored"
               /\ last.code = 200
               /\ last.result.issue_url
                  <=> (/\ HasInstallation(last.git_username, last.repository_name)
                       /\ last.env \notin {"issue_fail", "issue_raise"}))
        /\ (/\ ExpectedRejection = ""
            /\ HasInstallation(last.git_username, last.repository_name)
            /\ last.env = "docker_fail")
           => (/\ last.result.ret = "dict"
               /\ last.result.status = "started"
               /\ last.status = "started"
               /\ last.result.dispatch)

\* create_github_issue raises while a non-monotonic tag is rejected
C11_Witness ==
    /\ last.op = "tag"
    /\ last.env = "issue_raise"
    /\ last.result.issue
    /\ IsRejection(last.result, "not_greater")
    /\ ~ last.result.issue_url

\* the launch of the container fails and the tag is admitted all the same
C11_WitnessLaunchFails ==
    /\ last.op = "tag"
    /\ last.env = "docker_fail"
    /\ last.result.status = "started"
    /\ running = EmptyBag

----------------------------------------------------------------------------
(* C15 *)

\* the primary key of a TestResult row, or of the body of a request
ResultKey(x) == <<x.version_name, x.release_name, x.git_username, x.repository_name>>

\* the last request was one to /api/test-result that recorded its body
Recorded(response) == response.op = "result" /\ response.code = 200

\* C15: the TestResult rows are unique per (version_name, release_name,
\* git_username, repository_name), and a write that succeeds leaves for its
\* key the one row that carries the test_status and the issue_text written,
\* whatever row the key had before (so the same result recorded twice
\* leaves the same single row), and leaves the rows of the other keys alone
C15_UniquePerKeyLastWriteWins ==
    /\ [](\A a, b \in TestResult : ResultKey(a) = ResultKey(b) => a = b)
    /\ [][Recorded(last')
          => LET d == last'.request.test_data IN
             /\ {row \in TestResult' : ResultKey(row) = ResultKey(d)}
                = {[version_name |-> d.version_name, release_name |-> d.release_name,
                    git_username |-> d.git_username,
                    repository_name |-> d.repository_name,
                    test_status |-> d.test_status, issue_text |-> d.issue_text]}
             /\ {row \in TestResult' : ResultKey(row) # ResultKey(d)}
                = {row \in TestResult : ResultKey(row) # ResultKey(d)}]_vars

\* a FAILED result with its issue text has been recorded beside another row
C15_Witness ==
    /\ Recorded(last)
    /\ last.request.test_data.test_status = "FAILED"
    /\ last.request.test_data.issue_text = "crash"
    /\ Cardinality(TestResult) = 2
    /\ \E row \in TestResult :
        /\ ResultKey(row) = ResultKey(last.request.test_data)
        /\ row.test_status = "FAILED"
        /\ row.issue_text = "crash"

----------------------------------------------------------------------------
(* C17 *)

\* the TestResult rows of a version of a repository
ResultsOf(u, r, version_name) ==
    {row \in TestResult : /\ row.git_username = u
                          /\ row.repository_name = r
                          /\ row.version_name = version_name}

\* the Versions of the semester of a repository
VersionsOf(u, r) ==
    {ver.version_name : ver \in {v \in Version :
        \E rep \in Repository : /\ rep.git_username = u
                                /\ rep.repository_name = r
                                /\ rep.semester_name = v.semester_name}}

\* C17 as stated: once a result is recorded it is the most recently run of
\* its version, and the badge of the repository shows its status for that
\* version
C17_Original ==
    Recorded(last)
    => LET d == last.request.test_data IN
       d.version_name \in VersionsOf(d.git_username, d.repository_name)
       => <<d.version_name, d.test_status>> \in db_update(d.git_username, d.repository_name)

\* C17: the badge has one tag per Version of the repository's semester; it
\* shows NOT_FOUND when the version has no TestResult, and otherwise the
\* greatest status of the version's TestResults in the order ERROR < FAILED
\* < PASS, whichever was run last: a PASS of one release is not displaced by
\* a later ERROR or FAILED of another release of the same version
C17_BadgeShowsGreatestStatus ==
    \A k \in RepoKeys :
        /\ {tag[1] : tag \in db_update(k[1], k[2])} = VersionsOf(k[1], k[2])
        /\ \A tag \in db_update(k[1], k[2]) :
            LET statuses == {row.test_status : row \in ResultsOf(k[1], k[2], tag[1])} IN
            /\ tag[2] = "NOT_FOUND" <=> statuses = {}
            /\ "PASS" \in statuses => tag[2] = "PASS"
            /\ ("PASS" \notin statuses /\ "FAILED" \in statuses) => tag[2] = "FAILED"
            /\ statuses = {"ERROR"} => tag[2] = "ERROR"

\* an ERROR has just been recorded for v1.0.1 while v1.0.0 of the same
\* version has a PASS, and the badge shows PASS for v1.0
C17_Witness ==
    /\ Recorded(last)
    /\ last.request.test_data.release_name = T_1_0_1
    /\ last.request.test_data.test_status = "ERROR"
    /\ \E row \in ResultsOf("alice", "proj", V_1_0) :
        row.release_name = T_1_0_0 /\ row.test_status = "PASS"
    /\ <<V_1_0, "PASS">> \in db_update("alice", "proj")

----------------------------------------------------------------------------
(* C18 *)

\* C18: a request to /api/test-result whose X-API-Secret header is missing
\* or differs from the secret is answered 401 and writes no row
C18_MissingOrWrongSecretIs401 ==
    [][(last'.op = "result" /\ last'.request.x_api_secret # API_SECRET)
       => (last'.code = 401 /\ TestResult' = TestResult)]_vars

----------------------------------------------------------------------------
(* C19 *)

\* the body of the last request to /api/test-result is not a TestResultData:
\* a required field is missing or test_status is not one of the three values
InvalidBody(response) ==
    \/ ~ response.request.test_data.complete
    \/ response.request.test_data.test_status \notin {"PASS", "ERROR", "FAILED"}

\* C19: every TestResult row has test_status PASS, ERROR or FAILED; a
\* callback whose test_status is another value or that lacks a required
\* field records nothing and leaves the Store unchanged, answered 422 when
\* it carries the secret; a callback for a repository that is not in the
\* Store records nothing, answered 404 when it is otherwise acceptable
C19_OnlyValidStatusesRecorded ==
    /\ [](\A row \in TestResult : row.test_status \in {"PASS", "ERROR", "FAILED"})
    /\ [][(last'.op = "result" /\ InvalidBody(last'))
          => /\ UNCHANGED <<Repository, Semester, Version, TestResult, User>>
             /\ last'.code # 200
             /\ last'.request.x_api_secret = API_SECRET => last'.code = 422]_vars
    /\ [][(/\ last'.op = "result"
           /\ ~ InStore(last'.git_username, last'.repository_name))
          => /\ UNCHANGED <<Repository, Semester, Version, TestResult, User>>
             /\ last'.code # 200
             /\ (last'.request.x_api_secret = API_SECRET /\ ~ InvalidBody(last'))
                => last'.code = 404]_vars

\* a callback with the secret and a test_status outside the three values
\* has been answered 422 while the Store holds a row
C19_Witness ==
    /\ last.op = "result"
    /\ last.request.x_api_secret = API_SECRET
    /\ last.request.test_data.complete
    /\ last.request.test_data.test_status = "INVALID_STATUS"
    /\ last.code = 422
    /\ TestResult # {}

\* a valid callback with the secret for a repository that is not in the
\* Store has been answered 404
C19_WitnessNotFound ==
    /\ last.op = "result"
    /\ last.request.x_api_secret = API_SECRET
    /\ ~ InvalidBody(last)
    /\ ~ InStore(last.git_username, last.repository_name)
    /\ last.code = 404

----------------------------------------------------------------------------
(* C20 *)

\* C20: an installation 'deleted' event is answered 'success' only when both
\* removals succeeded and 'error' otherwise; once it is answered 'success'
\* no Repository row with that installation_id remains and no User is left
\* without a Repository, and a tag event that follows for a repository of
\* that installation is treated as one of an unregistered repository
C20_UninstallRemovesRepositories ==
    /\ [](last.op = "deleted"
          => /\ last.status = (IF last.env = "ok" THEN "success" ELSE "error")
             /\ last.status = "success"
                => /\ \A row \in Repository : row.installation_id # last.installation_id
                   /\ \A u \in User : \E row \in Repository : row.git_username = u
                   /\ \A k \in RepoKeys :
                        InstallationOf(k[1], k[2]) = last.installation_id
                        => get_repository_info(k[1], k[2]) = {})
    /\ [][(/\ last.op = "deleted"
           /\ last.status = "success"
           /\ last'.op = "tag"
           /\ InstallationOf(last'.git_username, last'.repository_name) = last.installation_id)
          => (last'.result.ret = "False" /\ ~ last'.result.dispatch)]_vars

\* the app is uninstalled from a repository that was set up and whose user
\* was registered, and both rows are gone
C20_Witness ==
    /\ last.op = "deleted"
    /\ last.status = "success"
    /\ last.installation_id = 1
    /\ TestResult # {}
    /\ Repository = {}
    /\ User = {}

\* the removal of the repositories fails and the event is answered 'error'
C20_WitnessRemovalFails ==
    /\ last.op = "deleted"
    /\ last.env = "repo_fail"
    /\ last.status = "error"
    /\ \E row \in Repository : row.installation_id = last.installation_id

----------------------------------------------------------------------------
(* C14 *)

\* C14: every TestResult row is of a tag that the Admission Controller
\* admitted for its repository; no request to /webhook or to
\* /api/test-result creates a row for a tag that was never admitted
C14_LedgerHoldsOnlyAdmittedTags ==
    \A row \in TestResult :
        <<row.git_username, row.repository_name, row.release_name>> \in admitted

----------------------------------------------------------------------------
(* C12 *)

\* the last request was an event sent to /webhook
WebhookResponse(response) ==
    response.op \in {"tag", "webhook", "other", "fails", "deleted", "removed"}

C12_WitnessNoHeader ==
    /\ last.op = "fails"
    /\ last.env = "no_header"
    /\ last.code = 500

----------------------------------------------------------------------------
(* C13 *)

\* C13 as stated: every answer to a webhook event has a status field, one of
\* "success", "error", "ignored" and "acknowledged"
C13_Original ==
    WebhookResponse(last)
    => last.status \in {"success", "error", "ignored", "acknowledged"}

\* C13: every 2xx answer to a webhook event has a status field, one of
\* "success", "error", "ignored", "acknowledged" and, for an admitted tag,
\* "started"
C13_StatusOfAnswers ==
    (WebhookResponse(last) /\ last.code \in 200..299)
    => /\ last.status \in {"success", "error", "ignored", "acknowledged", "started"}
       /\ last.status = "started" <=> (last.op = "tag" /\ last.result.status = "started")

\* an admitted tag is answered with status "started"
C13_Witness ==
    /\ last.op = "tag"
    /\ last.result.dispatch
    /\ last.status = "started"
    /\ last.code = 200

\* a tag event of an unregistered repository is answered with status "error"
C13_WitnessUnregistered ==
    /\ last.op = "tag"
    /\ last.result.ret = "False"
    /\ last.status = "error"

----------------------------------------------------------------------------
(* C16 *)

\* C16: when a build runs into the 180 s timeout its process is killed and
\* a failure issue is raised for its repository
C16_TimeoutKillsAndNotifies ==
    last.op = "timeout"
    => /\ \A b \in BagToSet(running) :
            ~ (/\ b.git_username = last.git_username
               /\ b.repository_name = last.repository_name
               /\ b.release = last.tag)
       /\ last.result.issue

----------------------------------------------------------------------------
(* C21 *)

\* C21: the container of an admitted tag vX.Y.Z is given "vX.Y" as its
\* version and the whole tag as its release
C21_DispatchedVersionIsMajorMinor ==
    (last.op = "tag" /\ last.result.dispatch)
    => \A b \in BagToSet(running) :
        /\ b.git_username = last.git_username
        /\ b.repository_name = last.repository_name
        /\ b.release = last.tag
        /\ b.version = VersionNameOf(last.tag)
        /\ b.version = last.result.version

----------------------------------------------------------------------------
(* C22 *)

\* the positions of the order of the ledger that hold a tag of the grammar
WellFormedPositions(order) == {i \in 1..Len(order) : MatchesGrammar(order[i])}

\* C22: the reference of the monotonicity check is a ledger tag that
\* matches vX.Y.Z (there is none exactly when the ledger has no such tag),
\* its MINOR is at least the MINOR of every well-formed ledger tag whatever
\* their MAJOR and PATCH, and among the well-formed tags of that MINOR it is
\* the first in the order get_release_tags returned
C22_ReferenceIsFirstOfHighestMinor ==
    last.op = "reference"
    => LET wf == WellFormedPositions(last.order)
           ref == last.result.last_tag
       IN /\ ref = NoneTag <=> wf = {}
          /\ wf # {}
             => \E i \in wf :
                 /\ last.order[i] = ref
                 /\ \A j \in wf : SemverOf(last.order[j])[2] <= SemverOf(ref)[2]
                 /\ \A j \in wf : SemverOf(last.order[j])[2] = SemverOf(ref)[2] => i <= j

\* the ledger is returned as v1.0 (malformed), v1.0.1, v1.0.0: the two
\* well-formed tags share the highest MINOR and the first is the reference
C22_Witness ==
    /\ last.op = "reference"
    /\ last.order = <<M_TwoParts, T_1_0_1, T_1_0_0>>
    /\ last.result.last_tag = T_1_0_1

\* v1.1.0 is the reference although v10.2.3 is not in play and v1.0.1 has
\* the higher PATCH
C22_WitnessHigherMinor ==
    /\ last.op = "reference"
    /\ last.order = <<T_1_0_1, T_1_1_0>>
    /\ last.result.last_tag = T_1_1_0

----------------------------------------------------------------------------
(* C23 *)

\* the container of the tag event in a response
ContainerOf(response) ==
    Container(response.git_username, response.repository_name, response.tag)

\* C23: when a delivery of a tag has been admitted and a second delivery of
\* the same tag for the same repository is decided before any result is
\* recorded (with the same reference tag and its credentials obtained), the
\* second is admitted too and a second build is dispatched; the TestResult
\* rows stay unique per (version, release, user, repo) all the same
C23_RaceAdmitsBothKeepsOneRow ==
    /\ [][(/\ last.op = "tag"
           /\ last.result.dispatch
           /\ last'.op = "tag"
           /\ last'.git_username = last.git_username
           /\ last'.repository_name = last.repository_name
           /\ last'.tag = last.tag
           /\ last'.result.last_tag = last.result.last_tag
           /\ last'.env = "ok")
          => /\ last'.status = "started"
             /\ last'.result.dispatch
             /\ CopiesIn(ContainerOf(last'), running')
                = CopiesIn(ContainerOf(last'), running) + 1
             /\ TestResult' = TestResult]_vars
    /\ [](\A a, b \in TestResult :
            (/\ a.version_name = b.version_name
             /\ a.release_name = b.release_name
             /\ a.git_username = b.git_username
             /\ a.repository_name = b.repository_name) => a = b)

\* two builds of v1.0.0 are in flight at once and nothing is recorded yet
C23_Witness ==
    /\ last.op = "tag"
    /\ last.tag = T_1_0_0
    /\ last.status = "started"
    /\ CopiesIn(Container("alice", "proj", T_1_0_0), running) = 2
    /\ TestResult = {}

\* the first of the two builds has reported and the second is still in
\* flight: one row for the tag
C23_WitnessOneRow ==
    /\ last.op = "result"
    /\ last.code = 200
    /\ last.tag = T_1_0_0
    /\ CopiesIn(Container("alice", "proj", T_1_0_0), running) = 1
    /\ Cardinality({row \in TestResult : row.release_name = T_1_0_0}) = 1

----------------------------------------------------------------------------
(* C24 *)

\* the tag event in `last` passed every check for a repository with an
\* installation_id, and generating the JWT or fetching the token failed
CredentialFetchFailed ==
    /\ PassesEveryCheck
    /\ Registered(last.git_username, last.repository_name)
    /\ HasInstallation(last.git_username, last.repository_name)
    /\ last.env = "token_fail"

----------------------------------------------------------------------------
(* C25 *)

\* the event read in `last` is a tag-bearing one
TagBearing ==
    \/ last.env = "create" /\ last.request.ref_type = "tag"
    \/ last.env = "push" /\ StartsWith(last.request.ref, RefsTags)

\* C25: a create of a tag and a push of refs/tags/<tag> call the Admission
\* Controller exactly once, with the owner and the repository split from
\* full_name at the first "/" and the tag string with the "refs/tags/"
\* prefix removed; every other event (and a full_name without "/") calls
\* nothing and is answered "acknowledged"
C25_TagEventsRoutedOnce ==
    last.op = "routed"
    => LET p == last.request
           routed == last.result
       IN IF TagBearing /\ HasSlash(p.full_name)
          THEN /\ routed.calls = 1
               /\ routed.git_username \o <<"/">> \o routed.repository_name = p.full_name
               /\ ~ HasSlash(routed.git_username)
               /\ routed.tag_name
                  = (IF last.env = "create" THEN p.ref
                     ELSE SubSeq(p.ref, Len(RefsTags) + 1, Len(p.ref)))
          ELSE routed.calls = 0 /\ routed.status = "acknowledged"

----------------------------------------------------------------------------
(* C26 *)

\* the window of the Version row contains the time of the event
WindowOpen(v) == v.date_from <= Now /\ Now <= v.date_to

\* the Version row the tag in `last` maps to, in the repository's semester
MappedVersions ==
    {v \in Version :
        /\ v.version_name = VersionNameOf(last.tag)
        /\ \E row \in Repository :
              /\ row.git_username = last.git_username
              /\ row.repository_name = last.repository_name
              /\ row.semester_name = v.semester_name}

\* C26: the admission decision does not depend on time: it is determined by
\* the repository, the tag, the ledger and the (semester_name, version_name)
\* keys of Version, whatever date_from and date_to are against the time of
\* the event; a tag whose version window is closed or not yet open is
\* admitted all the same.
C26_DecisionIgnoresTime ==
    (last.op = "tag" /\ Registered(last.git_username, last.repository_name))
    => IF ExpectedRejection # ""
       THEN IsRejection(last.result, ExpectedRejection) /\ ~ last.result.dispatch
       ELSE /\ last.result.ret = "dict"
            /\ last.result.status = "started"
            /\ last.result.dispatch

\* a tag is admitted after the window of its version has closed
C26_Witness ==
    /\ last.op = "tag"
    /\ last.result.dispatch
    /\ \E v \in MappedVersions : v.date_to < Now

\* a tag is admitted before the window of its version opens
C26_WitnessNotYetOpen ==
    /\ last.op = "tag"
    /\ last.result.dispatch
    /\ running # EmptyBag
    /\ \E v \in MappedVersions : Now < v.date_from

----------------------------------------------------------------------------
(* C27 *)

\* the tag in `last` is not greater than a well-formed ledger tag of its own
\* MAJOR.MINOR
NonMonotonic ==
    \E l \in WellFormedLedger(last.git_username, last.repository_name) :
        NotAbove(last.tag, l)

\* C27: process_tag_event applies its checks in the order repository
\* existence, tag format, duplicate, monotonicity, version mapping and
\* returns the first failure: a tag in the ledger that is also not greater
\* than the reference is a duplicate, a non-monotonic tag whose version is
\* unmapped is not_greater, and a malformed tag for an unregistered
\* repository gets no malformed rejection and no issue.
C27_FirstFailingCheckIsReported ==
    last.op = "tag" =>
        /\ ~ Registered(last.git_username, last.repository_name)
           => (/\ last.result.ret = "False"
               /\ last.result.reason = ""
               /\ ~ last.result.issue)
        /\ Registered(last.git_username, last.repository_name)
           => /\ last.result.reason = ExpectedRejection
              /\ (MatchesGrammar(last.tag)
                  /\ last.tag \in Ledger(last.git_username, last.repository_name))
                 => IsRejection(last.result, "duplicate")
              /\ (/\ MatchesGrammar(last.tag)
                  /\ last.tag \notin Ledger(last.git_username, last.repository_name)
                  /\ ~ PassesMonotonicity)
                 => IsRejection(last.result, "not_greater")

\* a tag that is not greater than the reference and has no Version row is
\* rejected as not_greater
C27_Witness ==
    /\ last.op = "tag"
    /\ MatchesGrammar(last.tag)
    /\ Registered(last.git_username, last.repository_name)
    /\ ~ VersionMapped(last.git_username, last.repository_name, last.tag)
    /\ last.tag \notin Ledger(last.git_username, last.repository_name)
    /\ NonMonotonic
    /\ IsRejection(last.result, "not_greater")

\* a ledger tag that is also not greater than the reference is a duplicate
C27_WitnessDuplicate ==
    /\ last.op = "tag"
    /\ MatchesGrammar(last.tag)
    /\ last.tag \in Ledger(last.git_username, last.repository_name)
    /\ NonMonotonic
    /\ ~ VersionMapped(last.git_username, last.repository_name, last.tag)
    /\ IsRejection(last.result, "duplicate")

\* a malformed tag for a repository that is not registered
C27_WitnessUnregistered ==
    /\ last.op = "tag"
    /\ ~ MatchesGrammar(last.tag)
    /\ ~ Registered(last.git_username, last.repository_name)
    /\ Repository # {}
    /\ last.result.ret = "False"

----------------------------------------------------------------------------
(* C28 *)

\* C28: in every reachable state each TestResult row refers to an existing
\* Repository row with the same (git_username, repository_name), also after
\* the installation events 'deleted' and 'removed' and after every result
\* callback, so that a repository installed again starts with an empty
\* release ledger.
C28_EveryResultHasItsRepository ==
    \A row \in TestResult : InStore(row.git_username, row.repository_name)

----------------------------------------------------------------------------
(* C29 *)

\* the repository has the row save_repository_with_installation wrote and
\* its setup has not been saved: its semester_name is empty
InstalledNotSetUp(u, r) ==
    \E row \in Repository :
        /\ row.git_username = u
        /\ row.repository_name = r
        /\ row.semester_name = ""

\* C29: a repository that is installed but not set up is treated by
\* process_tag_event exactly like an absent one: every tag event for it,
\* well-formed or not, returns False with no issue and no dispatch and
\* changes neither the ledger nor the running builds, until
\* update_repository_details gives it a semester of the Semester table.
C29_InstalledNotSetUpIsIgnored ==
    /\ []((last.op = "tag" /\ InstalledNotSetUp(last.git_username, last.repository_name))
          => /\ last.result = Outcome("False", "", "", FALSE, FALSE, FALSE, <<>>, NoneTag)
             /\ ~ last.result.issue
             /\ ~ last.result.dispatch)
    /\ [][(last'.op = "tag"
           /\ \E row \in Repository :
                 /\ row.git_username = last'.git_username
                 /\ row.repository_name = last'.repository_name
                 /\ row.semester_name = "")
          => UNCHANGED <<Store, running, admitted>>]_vars

\* a well-formed tag arrives for the repository between its installation and
\* its setup and is ignored
C29_Witness ==
    /\ last.op = "tag"
    /\ InstalledNotSetUp(last.git_username, last.repository_name)
    /\ MatchesGrammar(last.tag)
    /\ last.result.ret = "False"

\* a malformed tag arrives for it and no issue is opened
C29_WitnessMalformed ==
    /\ last.op = "tag"
    /\ InstalledNotSetUp(last.git_username, last.repository_name)
    /\ ~ MatchesGrammar(last.tag)
    /\ ~ last.result.issue

\* once the setup is saved a tag of the same repository is admitted
C29_WitnessAfterSetup ==
    /\ last.op = "tag"
    /\ Registered(last.git_username, last.repository_name)
    /\ last.result.dispatch
    /\ TestResult = {}

----------------------------------------------------------------------------
(* C30 *)

\* C30: once a repository is configured through setup save, a later visit
\* of the /setup installation callback leaves its configuration unchanged,
\* so that it stays admissible for tag events until an installation event
\* removes it.
C30_SetupPreservesConfiguration ==
    [][last'.op = "setup"
       => \A row \in Repository : row.semester_name # "" => row \in Repository']_vars

====
